---------------------------- MODULE Spec2Model ----------------------------
(* A model of the Figlewski option-arbitrage notebook (src/presentation.ipynb). *)
(* The notebook's cells are the operations; its global names are the state.     *)
(*                                                                              *)
(* Numbers.  The notebook computes in IEEE doubles.  Here every real is a       *)
(* scaled integer:                                                              *)
(*   - asset prices, strikes and option prices are in cents (1/100);            *)
(*   - dimensionless reals (rates, volatilities, d1, d2, N(d1), logs, growth    *)
(*     factors) are in units of 1/Unit;                                         *)
(*   - daily excess returns are in units of 1/(100*Unit) dollars (cents/Unit).  *)
(* Rounding is to nearest.  The float outcomes that are not numbers (NaN) and   *)
(* numpy's RuntimeWarnings are modelled explicitly where they can arise.        *)
(* Arrays are functions on 0..n-1, with the notebook's own indices.             *)
EXTENDS Integers, Sequences, FiniteSets, TLC

\* ------------------------------------------------------------------ bounds
\* The notebook simulates 250 assets over 25 days; the model keeps the same
\* loops over fewer assets and days.  The literals 25 (path length, days to
\* expiry) and 24 (number of daily returns) become HorizonDays and
\* HorizonDays - 1.
NumAssets == 2
HorizonDays == 3

\* The standard-normal draws the model lets np.random.normal(0,1) return.
Draws == {-2, 2}

\* What np.empty may leave in a fresh array.
Garbage == {0, -777}

\* The pricer is also applied on its own, to times to expiry of
\* 0 .. MaxPricerDays days; the lot rounding to DeltaPoints + 1 deltas
\* spread evenly over [0, 1].
MaxPricerDays == 2
DeltaPoints == 80

\* The states a fresh process's global generator may start in (numpy seeds
\* np.random from operating-system entropy when no seed is set).
EntropyStates == 8

\* --------------------------------------------------------------- fixed point
Unit == 10 ^ 4

Abs(x) == IF x < 0 THEN -x ELSE x

\* a / b rounded to nearest (half away from zero), b # 0.
SDiv(a, b) ==
    LET n == IF b < 0 THEN -a ELSE a
        d == Abs(b)
    IN  IF n >= 0 THEN (n + d \div 2) \div d ELSE -((-n + d \div 2) \div d)

RECURSIVE IsqrtIter(_, _, _)
IsqrtIter(x, lo, hi) ==
    IF lo >= hi THEN lo
    ELSE LET mid == (lo + hi + 1) \div 2
         IN  IF mid * mid <= x THEN IsqrtIter(x, mid, hi)
             ELSE IsqrtIter(x, lo, mid - 1)

\* floor(sqrt(x)), 0 <= x < 2^31.
Isqrt(x) ==
    IF x < 256 * 256 THEN IsqrtIter(x, 0, 255)
    ELSE IF x < 4096 * 4096 THEN IsqrtIter(x, 256, 4095)
    ELSE IsqrtIter(x, 4096, 46340)

\* log(p/s) in 1/Unit, for p/s > 0: 2*atanh((p-s)/(p+s)), to the cubic term.
Ln(p, s) ==
    LET y  == SDiv((Abs(p) - Abs(s)) * Unit, Abs(p) + Abs(s))
        y2 == SDiv(y * y, Unit)
        y3 == SDiv(y2 * y, 3 * Unit)
    IN  2 * (y + y3)

\* exp(x), x and the result in 1/Unit: the Taylor series to the cubic term
\* (|x| stays far below 1 in every use).
Exp(x) ==
    Unit + x + SDiv(x * x, 2 * Unit) + SDiv(SDiv(x * x, Unit) * x, 6 * Unit)

\* stats.norm.cdf at 0.0, 0.1, ..., 4.0, in 1/Unit.
PhiTable ==
    <<5000, 5398, 5793, 6179, 6554, 6915, 7257, 7580, 7881, 8159, 8413,
      8643, 8849, 9032, 9192, 9332, 9452, 9554, 9641, 9713, 9772, 9821,
      9861, 9893, 9918, 9938, 9953, 9965, 9974, 9981, 9987, 9990, 9993,
      9995, 9997, 9998, 9998, 9999, 9999, 10000, 10000>>

\* stats.norm.cdf on x >= 0: the table, interpolated linearly.
PhiPos(x) ==
    LET step == Unit \div 10
        n    == x \div step
    IN  IF x >= 4 * Unit THEN Unit
        ELSE PhiTable[n + 1]
             + ((PhiTable[n + 2] - PhiTable[n + 1]) * (x - n * step)) \div step

\* stats.norm.cdf, argument and result in 1/Unit.
Phi(x) == IF x >= 0 THEN PhiPos(x) ELSE Unit - PhiPos(-x)

RECURSIVE SumTo(_, _)
\* f[0] + ... + f[n]
SumTo(f, n) == IF n < 0 THEN 0 ELSE f[n] + SumTo(f, n - 1)

\* np.sum / np.mean / np.std of a one-dimensional array on 0..n-1.
NpSum(f, n) == SumTo(f, n - 1)
NpMean(f, n) == SDiv(NpSum(f, n), n)
NpStd(f, n) ==
    LET m == NpMean(f, n)
    IN  Isqrt(SDiv(NpSum([x \in 0 .. n - 1 |-> (f[x] - m) * (f[x] - m)], n), n))

\* ------------------------------------------------------- program constants
TradingDays == 260
InitialPrice == 100 * 100
ar == 15 * (Unit \div 100)
R == SDiv(Ln(Unit + ar, Unit), TradingDays)
v == SDiv(ar * 100, Isqrt(TradingDays * Unit))

rfr == 5 * (Unit \div 100)
div == 0
strikes == [x \in 0 .. 3 |-> 100 * (<<97, 100, 103, 105>>[x + 1])]
volatilities == [x \in 0 .. 4 |-> (Unit \div 100) * (<<10, 13, 15, 17, 20>>[x + 1])]
K == [x \in 0 .. 4 |-> (Unit \div 100) * (<<2, 5, 10, 25, 100>>[x + 1])]

Assets == 0 .. NumAssets - 1
Days == 0 .. HorizonDays - 1
StrikeIx == 0 .. 3
VolIx == 0 .. 4

\* ------------------------------------------------------------------ bscall
\* The value returned once d1 and vol*sqrt(T) are known and finite:
\* call = price*exp(-div*T)*N(d1)-strike*exp(-rfr*T)*N(d2), delta = N(d1).
BsFinite(spot, strike, dfq, dfr, d1, den) ==
    [call |-> SDiv(spot * SDiv(dfq * Phi(d1), Unit), Unit)
              - SDiv(strike * SDiv(dfr * Phi(d1 - den), Unit), Unit),
     delta |-> Phi(d1), nan |-> FALSE,
     warning |-> "none", exception |-> "none"]

\* The value returned given the numerator num and denominator den of d1.
\* den = 0 makes d1 +inf, -inf or NaN (0/0) by the sign of num, with a
\* RuntimeWarning and no exception: N(+inf) = 1, N(-inf) = 0.
\* logNaN: np.log was given a negative ratio, and everything is NaN.
BsFromD1(spot, strike, dfq, dfr, num, den, logNaN) ==
    IF logNaN \/ (den = 0 /\ num = 0)
    THEN [call |-> 0, delta |-> 0, nan |-> TRUE,
          warning |-> "invalid value", exception |-> "none"]
    ELSE IF den = 0
    THEN [call |-> IF num > 0
                   THEN SDiv(spot * dfq, Unit) - SDiv(strike * dfr, Unit)
                   ELSE 0,
          delta |-> IF num > 0 THEN Unit ELSE 0, nan |-> FALSE,
          warning |-> "divide by zero", exception |-> "none"]
    ELSE BsFinite(spot, strike, dfq, dfr, SDiv(num * Unit, den), den)

\* bscall with T in 1/Unit (Tu) and sqrt(T) in 1/Unit (sqrtT).
BsAtT(spot, strike, rate, sigma, q, Tu, sqrtT) ==
    BsFromD1(spot, strike,
             Exp(-SDiv(q * Tu, Unit)),
             Exp(-SDiv(rate * Tu, Unit)),
             Ln(spot, strike)
               + SDiv((rate - q + SDiv(sigma * sigma, 2 * Unit)) * Tu, Unit),
             SDiv(sigma * sqrtT, Unit),
             (spot < 0) # (strike < 0))

\* bscall(price,strike,rfr,vol,div,T), with T = T[1]/T[2] years, spot # 0 and
\* strike # 0.  The result: the pair returned, whether it is NaN, the numpy
\* warning raised on the way, and the exception raised (the function has no
\* raise and no guard).
bscall(spot, strike, rate, sigma, q, T) ==
    BsAtT(spot, strike, rate, sigma, q,
          SDiv(T[1] * Unit, T[2]),
          Isqrt(((Unit * Unit) \div T[2]) * T[1]))

\* -------------------------------------------------------------------- state
VARIABLES
    pc,             \* the cell (and loop) the notebook is about to run
    i, t,           \* loop indices of the path-generation loops
    price, dr,      \* the working path and daily return of asset i
    assets, daily_returns,
    path_stats,     \* final_prices ... stdev_annualized_volatility
    option_prices, call_deltas,
    grid_stats,     \* avg_option_prices ... num_ITM
    table,          \* agent_prices, agent_deltas and the rows printed
    excess_returns, r_deltas, er_std,
    frame,          \* the locals of the latest excess_return call
    grid_calls,     \* the bscall invocations of the latest option-grid cell
    warnings,       \* numpy RuntimeWarnings raised so far
    fin, fout, fpc  \* a single function applied to drawn inputs

gen_vars == <<i, t, price, dr, assets, daily_returns>>
cell_vars == <<path_stats, option_prices, call_deltas, grid_stats, table,
               excess_returns, r_deltas, er_std, frame, grid_calls, warnings>>
fn_vars == <<fin, fout, fpc>>
vars == <<pc, gen_vars, cell_vars, fn_vars>>

\* A name the notebook has not bound yet.
NotBound == <<>>

\* np.empty(shape): a fresh array holding whatever the allocator left (g).
Empty1(n, g) == [x \in 0 .. n - 1 |-> g]
Empty2(m, n, g) == [x \in 0 .. m - 1 |-> Empty1(n, g)]
Empty3(l, m, n, g) == [x \in 0 .. l - 1 |-> Empty2(m, n, g)]

\* An array after nested loops over S1, S2 (, S3) have assigned the values
\* val to their entries: every other entry keeps what the array held.
Fill2(arr, S1, S2, val) ==
    [x \in DOMAIN arr |-> [y \in DOMAIN arr[x] |->
        IF x \in S1 /\ y \in S2 THEN val[x][y] ELSE arr[x][y]]]
Fill3(arr, S1, S2, S3, val) ==
    [x \in DOMAIN arr |-> [y \in DOMAIN arr[x] |-> [z \in DOMAIN arr[x][y] |->
        IF x \in S1 /\ y \in S2 /\ z \in S3 THEN val[x][y][z] ELSE arr[x][y][z]]]]

\* price=np.empty(25); price[0]=100
FirstPrice == InitialPrice
NewPrice(g) == [Empty1(HorizonDays, g) EXCEPT ![0] = FirstPrice]
\* dr=np.empty(25); dr[0]=0
NewDr(g) == [Empty1(HorizonDays, g) EXCEPT ![0] = 0]

\* exp(R+v*np.random.normal(0,1)) for the draw z
Growth(z) == Exp(R + v * z)

\* The growth step without the exponential: price[t-1]*(R+v*z).
NextPriceNoExp(p, z) == SDiv(p * (R + v * z), Unit)

\* price[t-1]*exp(R+v*z)
NextPrice(p, z) == SDiv(p * Growth(z), Unit)

PipelineInit ==
    /\ i = 0
    /\ t = 1
    /\ \E g \in Garbage :
         /\ price = NewPrice(g)
         /\ dr = NewDr(g)
         /\ assets = Empty2(NumAssets, HorizonDays, g)
         /\ daily_returns = Empty2(NumAssets, HorizonDays, g)
    /\ path_stats = NotBound
    /\ option_prices = NotBound
    /\ call_deltas = NotBound
    /\ grid_stats = NotBound
    /\ table = NotBound
    /\ excess_returns = NotBound
    /\ r_deltas = NotBound
    /\ er_std = NotBound
    /\ frame = NotBound
    /\ grid_calls = NotBound
    /\ warnings = {}

FnIdle == fin = NotBound /\ fout = NotBound /\ fpc = "idle"

Init == pc = "generate" /\ PipelineInit /\ FnIdle

\* One pass of the inner loop: for t in range(1,25).
GenStep ==
    /\ pc = "generate"
    /\ i < NumAssets
    /\ t < HorizonDays
    /\ \E z \in Draws :
         LET p == NextPrice(price[t - 1], z)
         IN  /\ price' = [price EXCEPT ![t] = p]
             /\ dr' = Ln(p, price[t - 1])
    /\ t' = t + 1
    /\ UNCHANGED <<pc, i, assets, daily_returns, cell_vars, fn_vars>>

\* daily_returns[i]=dr, where dr is by now the scalar the inner loop left
\* (an array only if the inner loop never ran): numpy broadcasts a scalar.
DrRow(d) == IF HorizonDays > 1 THEN [x \in Days |-> d] ELSE d

\* The inner loop is over: assets[i]=price; daily_returns[i]=dr; next asset.
GenStore ==
    /\ pc = "generate"
    /\ i < NumAssets
    /\ t = HorizonDays
    /\ assets' = [assets EXCEPT ![i] = price]
    /\ daily_returns' = [daily_returns EXCEPT ![i] = DrRow(dr)]
    /\ i' = i + 1
    /\ t' = 1
    /\ \E g \in Garbage :
         /\ price' = IF i + 1 < NumAssets THEN NewPrice(g) ELSE price
         /\ dr' = IF i + 1 < NumAssets THEN NewDr(g) ELSE dr
    /\ pc' = IF i + 1 < NumAssets THEN "generate" ELSE "path_stats"
    /\ UNCHANGED <<cell_vars, fn_vars>>

\* The literals 24 and 25 of the annualisation factors 260/24 and 260/25.
RoRPeriods == HorizonDays - 1
ProfitPeriods == HorizonDays

\* x*(260/24)
AnnualizeRoR(x) == SDiv(x * TradingDays, RoRPeriods)
\* x*sqrt(260/24); the root is kept to 1/100
AnnualizeStd(x) == SDiv(x * Isqrt(SDiv(TradingDays * Unit, RoRPeriods)), 100)
\* (profit)*260/25
AnnualizeProfit(x) == SDiv(x * TradingDays, ProfitPeriods)

\* ((final_prices/assets[:,0])-1)*100, in 1/100 of a percent
RateOfReturn(final, first) == SDiv(final * Unit, first) - Unit

\* The rest of the generation cell: final prices, rates of return, volatility.
PathStats ==
    /\ pc = "path_stats"
    /\ LET final_prices    == [a \in Assets |-> assets[a][HorizonDays - 1]]
           rates_of_return == [a \in Assets |->
                                  RateOfReturn(final_prices[a], assets[a][0])]
           vols            == [a \in Assets |-> NpStd(daily_returns[a], HorizonDays)]
       IN  path_stats' =
             [final_prices |-> final_prices,
              rates_of_return |-> rates_of_return,
              mean_annualized_RoR |->
                  AnnualizeRoR(NpMean(rates_of_return, NumAssets)),
              stdev_annualized_RoR |->
                  AnnualizeStd(NpStd(rates_of_return, NumAssets)),
              vol |-> vols,
              mean_annualized_volatility |->
                  AnnualizeStd(NpMean(vols, NumAssets)),
              stdev_annualized_volatility |->
                  AnnualizeStd(NpStd(vols, NumAssets))]
    /\ pc' = "price_options"
    /\ UNCHANGED <<gen_vars, option_prices, call_deltas, grid_stats, table,
                   excess_returns, r_deltas, er_std, frame, grid_calls, warnings,
                   fn_vars>>

\* ------------------------------------------------------------ option grids
\* vol=0.15, the true volatility of the first pricing cell
vol == 15 * (Unit \div 100)

\* The time to expiry counted from the day after: T=(24-j).
GridTOffByOne(j) == <<HorizonDays - 1 - j, TradingDays>>

\* T=(25-j), passed as T/260
GridT(j) == <<HorizonDays - j, TradingDays>>

\* price=assets[i,j]
GridSpot(a, j) == assets[a][j]

\* The bscall made for (strike k, asset a, day j) at volatility sigma:
\* calls[j], deltas[j]=bscall(price,strikes[k],rfr,vol,div,T/260).
\* Its arguments and what it returned.
GridCall(sigma, k, a, j) ==
    [spot |-> GridSpot(a, j), strike |-> strikes[k], sigma |-> sigma,
     T |-> GridT(j),
     out |-> bscall(GridSpot(a, j), strikes[k], rfr, sigma, div, GridT(j))]

\* The warnings of a set of bscall results.
Warned(results) == {o.warning : o \in results} \ {"none"}

\* np.mean / np.std of a two-dimensional array (m by n).
NpMean2(f, m, n) == SDiv(NpSum([x \in 0 .. m - 1 |-> NpSum(f[x], n)], m), m * n)
NpStd2(f, m, n) ==
    LET mu == NpMean2(f, m, n)
        sq == [x \in 0 .. m - 1 |->
                 NpSum([y \in 0 .. n - 1 |-> (f[x][y] - mu) * (f[x][y] - mu)], n)]
    IN  Isqrt(SDiv(NpSum(sq, m), m * n))

\* if final_prices[p]>strikes[i]: (1, final-strike) else (0, 0)
InTheMoneyRow(final, strike) ==
    IF final > strike THEN <<1, final - strike>> ELSE <<0, 0>>

\* np.mean(inTheMoney[i,:,1]*inTheMoney[i,:,0])
AvgITM(rows) == NpMean([p \in Assets |-> rows[p][2] * rows[p][1]], NumAssets)
\* np.std(inTheMoney[i,:,0]*inTheMoney[i,:,1])
StdITM(rows) == NpStd([p \in Assets |-> rows[p][1] * rows[p][2]], NumAssets)
\* np.sum(inTheMoney[i,:,0])
NumITM(rows) == NpSum([p \in Assets |-> rows[p][1]], NumAssets)

\* The first pricing cell: the option grid at the true volatility, its
\* means, and the in-the-money table.
PriceOptions ==
    /\ pc = "price_options"
    /\ grid_calls' = [k \in StrikeIx |-> [a \in Assets |-> [j \in Days |->
                         GridCall(vol, k, a, j)]]]
    /\ \E g \in Garbage :
       LET itm  == Fill2(Empty2(4, NumAssets, g), StrikeIx, Assets,
                         [k \in StrikeIx |-> [p \in Assets |->
                           InTheMoneyRow(path_stats.final_prices[p], strikes[k])]])
       IN  /\ option_prices' =
                Fill3(Empty3(4, NumAssets, HorizonDays, g), StrikeIx, Assets, Days,
                      [k \in StrikeIx |-> [a \in Assets |-> [j \in Days |->
                        grid_calls'[k][a][j].out.call]]])
           /\ call_deltas' =
                Fill3(Empty3(4, NumAssets, HorizonDays, g), StrikeIx, Assets, Days,
                      [k \in StrikeIx |-> [a \in Assets |-> [j \in Days |->
                        grid_calls'[k][a][j].out.delta]]])
           /\ warnings' = warnings \cup
                  Warned({grid_calls'[k][a][j].out :
                            k \in StrikeIx, a \in Assets, j \in Days})
           /\ grid_stats' =
                [avg_option_prices |-> [k \in StrikeIx |->
                     NpMean2(option_prices'[k], NumAssets, HorizonDays)],
                 stdev_option_prices |-> [k \in StrikeIx |->
                     NpStd2(option_prices'[k], NumAssets, HorizonDays)],
                 inTheMoney |-> itm,
                 avg_ITM |-> [k \in StrikeIx |-> AvgITM(itm[k])],
                 stdev_ITM |-> [k \in StrikeIx |-> StdITM(itm[k])],
                 num_ITM |-> [k \in StrikeIx |-> NumITM(itm[k])]]
    /\ pc' = "trading_table"
    /\ UNCHANGED <<gen_vars, path_stats, table, excess_returns, r_deltas,
                   er_std, frame, fn_vars>>

\* ----------------------------------------------------- trading-strategy table
\* bscall(100,strikes[k],rfr,sigma,div,25/260)
TablePrice(k, sigma) ==
    bscall(100 * 100, strikes[k], rfr, sigma, div, <<HorizonDays, TradingDays>>)

\* A row whose trade takes the other side: buy the call the market maker
\* prices above the agent's value, sell the one priced below.
TableRowOtherSide(agent_price, agent_delta, o) ==
    LET trade == IF o.call > agent_price THEN "Buy     Sell"
                 ELSE IF o.call < agent_price THEN "Sell     Buy"
                 ELSE "No Trade"
        hedge == SDiv(agent_delta * 100 * 100, Unit)
        rlp   == IF trade = "Buy     Sell" THEN o.call - hedge ELSE hedge - o.call
        profit == agent_price - o.call
    IN  [price |-> o.call, delta |-> o.delta, trade |-> trade, rlp |-> rlp,
         profit |-> profit, ann_profit |-> AnnualizeProfit(profit)]

\* One row of the table, for the market maker's price and delta.
TableRow(agent_price, agent_delta, o) ==
    LET trade == IF o.call > agent_price THEN "Sell     Buy"
                 ELSE IF o.call < agent_price THEN "Buy     Sell"
                 ELSE "No Trade"
        hedge == SDiv(agent_delta * 100 * 100, Unit)
        rlp   == IF trade = "Buy     Sell" THEN o.call - hedge ELSE hedge - o.call
        profit == Abs(agent_price - o.call)
    IN  [price |-> o.call, delta |-> o.delta, trade |-> trade, rlp |-> rlp,
         profit |-> profit, ann_profit |-> AnnualizeProfit(profit)]

TradingTable ==
    /\ pc = "trading_table"
    /\ LET agent == [k \in StrikeIx |-> TablePrice(k, 15 * (Unit \div 100))]
           maker == [k \in StrikeIx |-> [x \in VolIx |->
                       TablePrice(k, volatilities[x])]]
       IN  /\ table' =
                [agent_prices |-> [k \in StrikeIx |-> agent[k].call],
                 agent_deltas |-> [k \in StrikeIx |-> agent[k].delta],
                 rows |-> [k \in StrikeIx |-> [x \in VolIx |->
                     TableRow(agent[k].call, agent[k].delta, maker[k][x])]]]
           /\ warnings' = warnings \cup
                  Warned({agent[k] : k \in StrikeIx}
                         \cup {maker[k][x] : k \in StrikeIx, x \in VolIx})
    /\ pc' = "scenarios"
    /\ UNCHANGED <<gen_vars, path_stats, option_prices, call_deltas,
                   grid_stats, excess_returns, r_deltas, er_std, frame,
                   grid_calls, fn_vars>>

\* The option grid over the five volatility scenarios; K and the empty
\* excess_returns array.
Scenarios ==
    /\ pc = "scenarios"
    /\ grid_calls' = [x \in VolIx |-> [k \in StrikeIx |-> [a \in Assets |->
                         [j \in Days |-> GridCall(volatilities[x], k, a, j)]]]]
    /\ \E g \in Garbage :
         /\ option_prices' = [x \in VolIx |->
                Fill3(Empty3(4, NumAssets, HorizonDays, g), StrikeIx, Assets, Days,
                      [k \in StrikeIx |-> [a \in Assets |-> [j \in Days |->
                        grid_calls'[x][k][a][j].out.call]]])]
         /\ call_deltas' = [x \in VolIx |->
                Fill3(Empty3(4, NumAssets, HorizonDays, g), StrikeIx, Assets, Days,
                      [k \in StrikeIx |-> [a \in Assets |-> [j \in Days |->
                        grid_calls'[x][k][a][j].out.delta]]])]
    /\ warnings' = warnings \cup
           Warned({grid_calls'[x][k][a][j].out :
                     x \in VolIx, k \in StrikeIx, a \in Assets, j \in Days})
    /\ \E g \in Garbage : excess_returns' = Empty3(10, 4, NumAssets, g)
    /\ i' = 0
    /\ pc' = "er_volatility"
    /\ UNCHANGED <<t, price, dr, assets, daily_returns, path_stats,
                   grid_stats, table, r_deltas, er_std, frame, fn_vars>>

\* ------------------------------------------------------------ excess returns
\* dr=rfr/260, in 1/(100*Unit)
DailyRate(rate) == SDiv(rate * 100, TradingDays)

\* The inner loop starting one day late: for k in range(2,25).
ErLoopDaysFromTwo == 2 .. HorizonDays - 1

\* for k in range(1,25)
ErLoopDays == 1 .. HorizonDays - 1

\* Day 0 left as np.empty found it.
ErDay0Unset == CHOOSE g \in Garbage : g # 0

\* The value d_excess_return[:,:,0] is set to.
ErDay0 == 0

\* The daily excess return hedged with the same day's delta, h[k].
DailyERSameDayHedge(opt, dlt, P, rate, s, a, k) ==
    LET ct  == opt[s][a][k]
        ct1 == opt[s][a][k - 1]
        h   == dlt[s][a][k]
        pt  == P[a][k]
        pt1 == P[a][k - 1]
    IN  (ct - ct1) * Unit - h * (pt - pt1)
        - SDiv(SDiv(rate * 100, TradingDays) * SDiv(ct1 * Unit - h * pt1, 100), Unit)

\* (ct-ct1)-h*(pt-pt1)-dr*(ct1-h*pt1) for strike s, asset a, day k >= 1,
\* in cents/Unit.
DailyER(opt, dlt, P, rate, s, a, k) ==
    LET ct  == opt[s][a][k]
        ct1 == opt[s][a][k - 1]
        h   == dlt[s][a][k - 1]
        pt  == P[a][k]
        pt1 == P[a][k - 1]
    IN  (ct - ct1) * Unit - h * (pt - pt1)
        - SDiv(DailyRate(rate) * SDiv(ct1 * Unit - h * pt1, 100), Unit)

\* e_r[i][j]=np.sum(d_excess_return[i][j])
ErTotal(series) == NpSum(series, HorizonDays)

\* excess_return writing each day's result over the option price it was
\* computed from, in the array it was given.
ExcessReturnInPlace(opt, dlt, P, rate, g) ==
    LET d == [s \in StrikeIx |-> [a \in Assets |-> [k \in Days |->
                IF k = 0 THEN 0
                ELSE (opt[s][a][k] - opt[s][a][k - 1]) * Unit
                     - dlt[s][a][k - 1] * (P[a][k] - P[a][k - 1])]]]
    IN  [option_prices |-> d, call_deltas |-> dlt, assets |-> P, rfr |-> rate,
         d_excess_return |-> d,
         e_r |-> [s \in StrikeIx |-> [a \in Assets |-> NpSum(d[s][a], HorizonDays)]]]

\* excess_return(option_prices, call_deltas, assets, rfr): its locals on
\* return.  The three arrays are the caller's own (numpy passes references,
\* and option_prices[i] is a view); no statement of the function assigns
\* into them.  g is what np.empty left in the two arrays the function
\* allocates.
excess_return(opt, dlt, P, rate, g) ==
    LET day0 == Fill3(Empty3(4, NumAssets, HorizonDays, g), 0 .. 3, Assets, {0},
                      [s \in 0 .. 3 |-> [a \in Assets |-> [k \in {0} |-> ErDay0]]])
        d    == Fill3(day0, StrikeIx, Assets, ErLoopDays,
                      [s \in StrikeIx |-> [a \in Assets |-> [k \in ErLoopDays |->
                          DailyER(opt, dlt, P, rate, s, a, k)]]])
    IN  [option_prices |-> opt, call_deltas |-> dlt, assets |-> P, rfr |-> rate,
         d_excess_return |-> d,
         e_r |-> Fill2(Empty2(4, NumAssets, g), StrikeIx, Assets,
                       [s \in StrikeIx |-> [a \in Assets |-> ErTotal(d[s][a])]])]

\* The first loop: one excess_return call per volatility scenario.
ErVolatility ==
    /\ pc = "er_volatility"
    /\ i < 5
    /\ \E g \in Garbage :
         frame' = excess_return(option_prices[i], call_deltas[i], assets, rfr, g)
    /\ excess_returns' = [excess_returns EXCEPT ![i] = frame'.e_r]
    \* the arrays the call was handed, as the call left them
    /\ option_prices' = [option_prices EXCEPT ![i] = frame'.option_prices]
    /\ call_deltas' = [call_deltas EXCEPT ![i] = frame'.call_deltas]
    /\ assets' = frame'.assets
    /\ i' = IF i + 1 < 5 THEN i + 1 ELSE 0
    /\ pc' = IF i + 1 < 5 THEN "er_volatility" ELSE "er_lots"
    /\ UNCHANGED <<t, price, dr, daily_returns, path_stats,
                   grid_stats, table, r_deltas,
                   er_std, grid_calls, warnings, fn_vars>>

\* Truncation instead of rounding: floor(a/b).
RoundDown(a, b) == a \div b

\* numpy's round of a/b, b > 0: to nearest, ties to the even integer.
RoundHalfEven(a, b) ==
    LET q == a \div b
        r == a - q * b
    IN  IF 2 * r < b THEN q
        ELSE IF 2 * r > b THEN q + 1
        ELSE IF q % 2 = 0 THEN q ELSE q + 1

\* lot * (delta/lot).round() for one delta.  With lot = 0 the quotient is
\* inf (or NaN at delta = 0) and 0*inf is NaN.
RoundToLot(delta, lot) ==
    IF lot = 0
    THEN [val |-> 0, nan |-> TRUE,
          warning |-> IF delta = 0 THEN "invalid value" ELSE "divide by zero"]
    ELSE [val |-> lot * RoundHalfEven(delta, lot), nan |-> FALSE,
          warning |-> "none"]

\* r_deltas=K[i] * (call_deltas/ K[i]).round(), over the whole grid
RoundGrid(dlt, lot) ==
    [x \in VolIx |-> [k \in StrikeIx |-> [a \in Assets |-> [j \in Days |->
        RoundToLot(dlt[x][k][a][j], lot).val]]]]

\* The lot-size rows taken from the lowest-volatility scenario instead.
LotScenarioLowest == CHOOSE x \in VolIx : \A y \in VolIx : volatilities[x] <= volatilities[y]

\* The option prices and the scenario whose deltas the lot-size rows use.
LotScenario == 2

\* The second loop: one excess_return call per lot size.
ErLots ==
    /\ pc = "er_lots"
    /\ i < 5
    /\ LET rounded == RoundGrid(call_deltas, K[i])  \* a new array
       IN  /\ \E g \in Garbage :
                frame' = excess_return(option_prices[LotScenario],
                                       rounded[LotScenario], assets, rfr, g)
           /\ r_deltas' = [rounded EXCEPT ![LotScenario] = frame'.call_deltas]
    /\ excess_returns' = [excess_returns EXCEPT ![i + 5] = frame'.e_r]
    \* the arrays the call was handed, as the call left them
    /\ option_prices' = [option_prices EXCEPT
                            ![LotScenario] = frame'.option_prices]
    /\ assets' = frame'.assets
    /\ i' = i + 1
    /\ pc' = IF i + 1 < 5 THEN "er_lots" ELSE "er_std"
    /\ UNCHANGED <<t, price, dr, daily_returns, path_stats,
                   call_deltas, grid_stats, table, er_std,
                   grid_calls, warnings, fn_vars>>

\* excess_returns[i][j].std(), in 1/10 cent
RowStd(row) == NpStd([a \in Assets |-> SDiv(row[a], Unit \div 10)], NumAssets)

ErStd ==
    /\ pc = "er_std"
    /\ er_std' = [x \in 0 .. 9 |-> [s \in StrikeIx |-> RowStd(excess_returns[x][s])]]
    /\ pc' = "done"
    /\ UNCHANGED <<gen_vars, path_stats, option_prices, call_deltas,
                   grid_stats, table, excess_returns, r_deltas, frame,
                   grid_calls, warnings, fn_vars>>

\* The dispersion table the last cell prints from er_std: the 'Base Case'
\* line, one line per volatility and one per lot size.
PrintedTable(std) ==
    [base |-> std[2],
     volatility |-> [x \in VolIx |-> [v |-> volatilities[x], std |-> std[x]]],
     lots |-> [x \in 0 .. 4 |-> [K |-> K[x], std |-> std[x + 5]]]]

Next ==
    \/ GenStep
    \/ GenStore
    \/ PathStats
    \/ PriceOptions
    \/ TradingTable
    \/ Scenarios
    \/ ErVolatility
    \/ ErLots
    \/ ErStd

\* The notebook, its cells run top to bottom.
Spec == Init /\ [][Next]_vars

\* ------------------------------------------------- bscall applied on its own
PricerSpots == {-100 * 100, 97 * 100, 100 * 100, 103 * 100}
PricerStrikes == {-100 * 100} \cup {strikes[k] : k \in StrikeIx}
PricerSigmas == {-vol, 0} \cup {volatilities[x] : x \in VolIx}
PricerTimes == {<<n, TradingDays>> : n \in 0 .. MaxPricerDays}

InitPricer ==
    /\ pc = "bscall"
    /\ PipelineInit
    /\ fin \in [spot : PricerSpots, strike : PricerStrikes,
                sigma : PricerSigmas, T : PricerTimes]
    /\ fout = NotBound
    /\ fpc = "ready"

PricerCall ==
    /\ pc = "bscall"
    /\ fpc = "ready"
    /\ fout' = bscall(fin.spot, fin.strike, rfr, fin.sigma, div, fin.T)
    /\ fpc' = "returned"
    /\ UNCHANGED <<pc, gen_vars, cell_vars, fin>>

SpecPricer == InitPricer /\ [][PricerCall]_vars

\* ------------------------------------------ the lot rounding applied on its own
RoundDeltas == {SDiv(d * Unit, DeltaPoints) : d \in 0 .. DeltaPoints}
RoundLots == {0} \cup {K[x] : x \in 0 .. 4}

InitRound ==
    /\ pc = "round"
    /\ PipelineInit
    /\ fin \in [delta : RoundDeltas, lot : RoundLots]
    /\ fout = NotBound
    /\ fpc = "ready"

RoundCall ==
    /\ pc = "round"
    /\ fpc = "ready"
    /\ fout' = RoundToLot(fin.delta, fin.lot)
    /\ fpc' = "returned"
    /\ UNCHANGED <<pc, gen_vars, cell_vars, fin>>

SpecRound == InitRound /\ [][RoundCall]_vars

\* ------------------------------------------- the generation cell, run twice
\* numpy's global generator, which np.random.normal(0,1) reads and advances.
\* The draw is a function of the generator's state alone.
RngNext(s) == (5 * s + 3) % (2 * EntropyStates)
RngDraw(s) == IF (s \div 2) % 2 = 0 THEN -2 ELSE 2

\* The generator's state after n draws from state s.
RECURSIVE RngAfter(_, _)
RngAfter(s, n) == IF n = 0 THEN s ELSE RngNext(RngAfter(s, n - 1))

\* price[d] of asset a when the cell starts with the global generator in
\* state s: the draws are taken asset by asset, day by day.
RECURSIVE PathPrice(_, _, _)
PathPrice(s, a, d) ==
    IF d = 0 THEN FirstPrice
    ELSE NextPrice(PathPrice(s, a, d - 1),
                   RngDraw(RngAfter(s, a * (HorizonDays - 1) + (d - 1))))

\* assets, after the two loops
GeneratedAssets(s) == [a \in Assets |-> [d \in Days |-> PathPrice(s, a, d)]]

\* The seeds a caller may want to run with.  The cell has no parameter,
\* call or assignment that receives one.
Seeds == {1, 2}
Entropy == 0 .. EntropyStates - 1

InitTwoRuns ==
    /\ pc = "two_runs"
    /\ PipelineInit
    /\ fin \in [seed : Seeds, entropy1 : Entropy, entropy2 : Entropy]
    /\ fout = NotBound
    /\ fpc = "ready"

\* The generation cell run in two fresh processes for the same seed.
TwoRuns ==
    /\ pc = "two_runs"
    /\ fpc = "ready"
    /\ fout' = [run1 |-> GeneratedAssets(fin.entropy1),
                run2 |-> GeneratedAssets(fin.entropy2)]
    /\ fpc' = "returned"
    /\ UNCHANGED <<pc, gen_vars, cell_vars, fin>>

SpecTwoRuns == InitTwoRuns /\ [][TwoRuns]_vars

\* ===================================================================== claims

\* Asset a's path has been stored in assets.
Stored(a) == pc # "generate" \/ a < i

\* C1: once an asset's path is generated, its first entry is the initial
\* price 100 exactly and every entry is strictly positive, whatever the draws.
C1_PathsStartAt100AndStayPositive ==
    \A a \in Assets :
        Stored(a) =>
            /\ assets[a][0] = 100 * 100
            /\ \A d \in Days : assets[a][d] > 0

\* C1 witness: all paths are generated and one has moved off the initial price.
C1_Witness ==
    /\ pc = "path_stats"
    /\ \E a \in Assets : assets[a][HorizonDays - 1] # assets[a][0]

\* C2: after an excess_return call, for every strike s, asset a and day
\* k in 1 .. horizon-1 the stored daily excess return is
\* (C[k]-C[k-1]) - h[k-1]*(P[k]-P[k-1]) - daily_rate*(C[k-1]-h[k-1]*P[k-1])
\* with daily_rate = annual rate / trading days, over the prices, deltas and
\* paths the call was given, and the value returned for (s, a) is the sum of
\* the series over days 0 .. horizon-1.
C2_DailyExcessReturnFormula ==
    frame # NotBound =>
        LET C  == frame.option_prices
            h  == frame.call_deltas
            P  == frame.assets
            ER == frame.d_excess_return
            daily_rate == SDiv(rfr * 100, TradingDays)
        IN  /\ P = assets
            /\ \A s \in StrikeIx, a \in Assets :
                 /\ \A k \in 1 .. HorizonDays - 1 :
                      ER[s][a][k] =
                          (C[s][a][k] - C[s][a][k - 1]) * Unit
                          - h[s][a][k - 1] * (P[a][k] - P[a][k - 1])
                          - SDiv(daily_rate
                                 * SDiv(C[s][a][k - 1] * Unit
                                        - h[s][a][k - 1] * P[a][k - 1], 100),
                                 Unit)
                 /\ frame.e_r[s][a] = SumTo(ER[s][a], HorizonDays - 1)

\* C2 witness: a call has returned with a non-zero daily excess return.
C2_Witness ==
    /\ frame # NotBound
    /\ \E s \in StrikeIx, a \in Assets, k \in 1 .. HorizonDays - 1 :
         frame.d_excess_return[s][a][k] # 0

\* C3: in every excess_return call (each scenario, each lot size) the day-0
\* element of every daily series is 0, and the returned sum is the sum of the
\* days 1 .. horizon-1 alone.
C3_DayZeroIsZero ==
    frame # NotBound =>
        \A s \in StrikeIx, a \in Assets :
            /\ frame.d_excess_return[s][a][0] = 0
            /\ frame.e_r[s][a] =
                 SumTo([k \in 0 .. HorizonDays - 2 |->
                          frame.d_excess_return[s][a][k + 1]], HorizonDays - 2)

\* C3 witness: a call for a lot size has returned a non-zero total.
C3_Witness ==
    /\ frame # NotBound
    /\ pc \in {"er_std", "done"}
    /\ \E s \in StrikeIx, a \in Assets : frame.e_r[s][a] # 0

\* The calls of the latest option grid, flattened: <<strike k, asset a, day j,
\* volatility, call>>.
GridCallsMade ==
    IF grid_calls = NotBound THEN {}
    ELSE IF pc \in {"trading_table", "scenarios"}
    THEN {<<k, a, j, vol, grid_calls[k][a][j]>> :
            k \in StrikeIx, a \in Assets, j \in Days}
    ELSE UNION {{<<k, a, j, volatilities[x], grid_calls[x][k][a][j]>> :
                   k \in StrikeIx, a \in Assets, j \in Days} : x \in VolIx}

\* C4: every bscall made while building an option grid, for asset a, strike
\* k, scenario and day j, is given asset a's spot on day j and the time to
\* expiry (horizon - j)/trading days; that time is never zero and is
\* 1/trading days on the last day of the path.
C4_GridTimeToExpiry ==
    \A c \in GridCallsMade :
        LET k == c[1]  a == c[2]  j == c[3]  call == c[5]
        IN  /\ call.spot = assets[a][j]
            /\ call.strike = strikes[k]
            /\ call.sigma = c[4]
            /\ call.T[1] * TradingDays = (HorizonDays - j) * call.T[2]
            /\ call.T[1] # 0
            /\ j = HorizonDays - 1 => call.T[1] * TradingDays = call.T[2]

\* C4 witness: the scenario grid is built and its last-day call for a moved
\* path had one day to expiry.
C4_Witness ==
    /\ pc = "er_volatility"
    /\ \E c \in GridCallsMade :
         /\ c[3] = HorizonDays - 1
         /\ c[5].T = <<1, TradingDays>>
         /\ c[5].spot # 100 * 100

\* C5: bscall at time to expiry 0 (other inputs valid) returns the intrinsic
\* value max(spot-strike, 0) and delta 1 if spot > strike else 0, not NaN.
C5_ZeroTimeReturnsIntrinsic ==
    (/\ fpc = "returned" /\ pc = "bscall"
     /\ fin.T[1] = 0 /\ fin.spot > 0 /\ fin.strike > 0 /\ fin.sigma > 0)
    => /\ ~fout.nan
       /\ fout.call = (IF fin.spot > fin.strike THEN fin.spot - fin.strike ELSE 0)
       /\ fout.delta = (IF fin.spot > fin.strike THEN Unit ELSE 0)

\* C6: bscall with zero or negative volatility, or a negative spot or strike,
\* fails with InvalidParameter and returns no pair.
C6_InvalidParameterRaised ==
    (/\ fpc = "returned" /\ pc = "bscall"
     /\ (fin.sigma <= 0 \/ fin.spot < 0 \/ fin.strike < 0))
    => fout.exception = "InvalidParameter"

\* C7: for every lot size K > 0 and every delta, the rounded hedge ratio
\* h = K*round(delta/K) is an integer multiple of K and a nearest one to
\* delta: |h - delta| <= K/2.
C7_RoundedToNearestMultiple ==
    (fpc = "returned" /\ pc = "round" /\ fin.lot > 0)
    => /\ ~fout.nan
       /\ fout.val % fin.lot = 0
       /\ 2 * Abs(fout.val - fin.delta) <= fin.lot

\* C7 witness: a delta strictly between two multiples was rounded up.
C7_Witness ==
    /\ fpc = "returned" /\ pc = "round" /\ fin.lot > 0
    /\ fin.delta % fin.lot # 0
    /\ fout.val > fin.delta

\* C8: with lot size 0 no rounding takes place: the hedge ratio equals the
\* continuous delta.
C8_ZeroLotMeansNoRounding ==
    (fpc = "returned" /\ pc = "round" /\ fin.lot = 0)
    => (~fout.nan /\ fout.val = fin.delta)

\* The in-the-money assets for strike index k, and their total payoff.
ITMAssets(k) == {p \in Assets : path_stats.final_prices[p] > strikes[k]}
ITMPayoff(k) ==
    SumTo([p \in Assets |->
             IF path_stats.final_prices[p] > strikes[k]
             THEN path_stats.final_prices[p] - strikes[k] ELSE 0], NumAssets - 1)

\* C9: for each strike the in-the-money summary holds the count of assets
\* with final price > strike and the mean payoff given in-the-money: the
\* total payoff divided by that count.
C9_MeanPayoffGivenInTheMoney ==
    grid_stats # NotBound =>
        \A k \in StrikeIx :
            /\ grid_stats.num_ITM[k] = Cardinality(ITMAssets(k))
            /\ ITMAssets(k) # {} =>
                 grid_stats.avg_ITM[k] = SDiv(ITMPayoff(k), Cardinality(ITMAssets(k)))

\* C10: the realized rate of return and the annualized arbitrage profit are
\* both scaled by trading days / horizon days (the horizon being the path
\* length), and the dispersion of the rate of return by its square root.
C10_OneAnnualizationFactor ==
    /\ path_stats # NotBound =>
         /\ path_stats.mean_annualized_RoR =
              SDiv(NpMean(path_stats.rates_of_return, NumAssets) * TradingDays,
                   HorizonDays)
         /\ path_stats.stdev_annualized_RoR =
              SDiv(NpStd(path_stats.rates_of_return, NumAssets)
                   * Isqrt(SDiv(TradingDays * Unit, HorizonDays)), 100)
    /\ table # NotBound =>
         \A k \in StrikeIx, x \in VolIx :
             table.rows[k][x].ann_profit =
                 SDiv(table.rows[k][x].profit * TradingDays, HorizonDays)

\* C11: two runs of path generation with the same parameters and the same
\* seed produce identical price paths for every asset.
C11_SameSeedSamePaths ==
    (fpc = "returned" /\ pc = "two_runs")
    => \A a \in Assets : fout.run1[a] = fout.run2[a]

\* C12: once the paths are generated no later step changes any price-path
\* entry (option grids, rounding, excess_return), and the excess_return
\* calls and the lot rounding leave the option price and delta grids they
\* read unchanged.
C12_PathsAndGridsReadOnly ==
    [][/\ pc # "generate" => assets' = assets
       /\ pc \in {"er_volatility", "er_lots"} =>
            /\ option_prices' = option_prices
            /\ call_deltas' = call_deltas]_vars

\* C12 witness: every scenario and lot size has been through excess_return,
\* on paths that moved, with rounded deltas that differ from the grid's.
C12_Witness ==
    /\ pc = "er_std"
    /\ r_deltas[LotScenario] # call_deltas[LotScenario]
    /\ frame.call_deltas = r_deltas[LotScenario]
    /\ \E a \in Assets : assets[a][HorizonDays - 1] # assets[a][0]

\* C13: for every generated asset the recorded daily-return series is 0 at
\* day 0 and ln(price[d]/price[d-1]) at each day d >= 1, and the asset's
\* realized volatility is the standard deviation of that series.
C13_DailyReturnsAreLogReturns ==
    /\ \A a \in Assets :
         Stored(a) =>
             /\ daily_returns[a][0] = 0
             /\ \A d \in 1 .. HorizonDays - 1 :
                  daily_returns[a][d] = Ln(assets[a][d], assets[a][d - 1])
    /\ path_stats # NotBound =>
         \A a \in Assets :
             path_stats.vol[a] =
                 NpStd([d \in Days |->
                          IF d = 0 THEN 0 ELSE Ln(assets[a][d], assets[a][d - 1])],
                       HorizonDays)

\* C14: in the trading-strategy table, for each strike and market-maker
\* volatility, the trade is sell call / buy stock iff the market maker's
\* price is above the agent's true-volatility price, buy call / sell stock
\* iff it is below, and No Trade iff they are equal; the dollar excess return
\* is |agent price - market price|, non-negative and 0 exactly under No
\* Trade; the scenario at the true volatility 0.15 is No Trade.
C14_TradeFollowsMispricing ==
    table # NotBound =>
        \A k \in StrikeIx :
            /\ \A x \in VolIx :
                 LET row    == table.rows[k][x]
                     agent  == table.agent_prices[k]
                 IN  /\ (row.trade = "Sell     Buy") <=> (row.price > agent)
                     /\ (row.trade = "Buy     Sell") <=> (row.price < agent)
                     /\ (row.trade = "No Trade") <=> (row.price = agent)
                     /\ row.profit = (IF agent >= row.price THEN agent - row.price
                                      ELSE row.price - agent)
                     /\ row.profit >= 0
                     /\ (row.profit = 0) <=> (row.trade = "No Trade")
            /\ \A x \in VolIx :
                 volatilities[x] = 15 * (Unit \div 100) =>
                     table.rows[k][x].trade = "No Trade"

\* C14 witness: the table is printed and one strike shows all three trades.
C14_Witness ==
    /\ table # NotBound
    /\ \E k \in StrikeIx :
         {table.rows[k][x].trade : x \in VolIx} =
             {"Sell     Buy", "Buy     Sell", "No Trade"}

\* Row x of excess_returns has been computed.
RowDone(x) ==
    \/ pc \in {"er_std", "done"}
    \/ pc = "er_lots" /\ (x < 5 \/ x - 5 < i)
    \/ pc = "er_volatility" /\ x < i

\* C15: row x (0 <= x < 5) of the excess-return results is computed from the
\* option prices and deltas of volatility scenario x; row 5+x from the option
\* prices of the true-volatility scenario (index 2, v = 0.15) and that
\* scenario's deltas rounded to lot size K[x]; the table's 'Base Case' line
\* is the v = 0.15 line.
C15_RowsFollowScenarioAndLot ==
    /\ \A x \in 0 .. 4 :
         /\ RowDone(x) =>
              \A g \in Garbage :
                excess_returns[x] =
                  excess_return(option_prices[x], call_deltas[x], assets, rfr, g).e_r
         /\ RowDone(5 + x) =>
              /\ volatilities[2] = 15 * (Unit \div 100)
              /\ \A g \in Garbage :
                   excess_returns[5 + x] =
                     excess_return(option_prices[2],
                                   [k \in StrikeIx |-> [a \in Assets |-> [j \in Days |->
                                       RoundToLot(call_deltas[2][k][a][j], K[x]).val]]],
                                   assets, rfr, g).e_r
    /\ pc = "done" =>
         \E x \in VolIx :
             /\ PrintedTable(er_std).volatility[x].v = 15 * (Unit \div 100)
             /\ PrintedTable(er_std).volatility[x].std = PrintedTable(er_std).base

\* C15 witness: all ten rows are computed; a mispriced-volatility row and a
\* lot-size row both differ from the true-volatility row.
C15_Witness ==
    /\ pc = "done"
    /\ excess_returns[0] # excess_returns[2]
    /\ excess_returns[9] # excess_returns[2]
    /\ er_std[9] # er_std[2]

\* The recognisable value np.empty may leave, and the cells that have run
\* once the notebook is at pc.
StaleValue == CHOOSE g \in Garbage : g < 0
CellsAfterGeneration ==
    {"path_stats", "price_options", "trading_table", "scenarios",
     "er_volatility", "er_lots", "er_std", "done"}

\* Every entry of a one-, two-, three- or four-dimensional array is assigned.
Assigned1(arr) == \A x \in DOMAIN arr : arr[x] # StaleValue
Assigned2(arr) == \A x \in DOMAIN arr : Assigned1(arr[x])
Assigned3(arr) == \A x \in DOMAIN arr : Assigned2(arr[x])
Assigned4(arr) == \A x \in DOMAIN arr : Assigned3(arr[x])

\* C16: with the cells run top to bottom, every entry of every array
\* allocated uninitialised is assigned by the loops before it is read: the
\* working path before the next price is drawn from it, the price paths and
\* daily returns before the statistics, the option price and delta grids and
\* the in-the-money table before their statistics and the excess returns,
\* the daily excess returns and totals when excess_return returns, and the
\* results array before er_std.
C16_NoUninitialisedEntryRead ==
    /\ (pc = "generate" /\ i < NumAssets) =>
           \A d \in 0 .. t - 1 : price[d] # StaleValue
    /\ \A a \in Assets : (pc = "generate" /\ a < i) => Assigned1(assets[a])
    /\ pc \in CellsAfterGeneration =>
           Assigned2(assets) /\ Assigned2(daily_returns)
    /\ (pc \in CellsAfterGeneration /\ grid_stats # NotBound) =>
           /\ Assigned3(grid_stats.inTheMoney)
           /\ Assigned1(grid_stats.avg_ITM)
    /\ pc \in {"trading_table", "scenarios"} =>
           Assigned3(option_prices) /\ Assigned3(call_deltas)
    /\ pc \in {"er_volatility", "er_lots", "er_std", "done"} =>
           Assigned4(option_prices) /\ Assigned4(call_deltas)
    /\ (pc \in CellsAfterGeneration /\ frame # NotBound) =>
           Assigned3(frame.d_excess_return) /\ Assigned2(frame.e_r)
    /\ pc \in {"er_std", "done"} => Assigned3(excess_returns)
    /\ pc = "done" => Assigned2(er_std)

\* C16 witness: the results array was allocated holding stale values; nine of
\* its ten rows have been computed and the tenth still shows what np.empty
\* left, just before the last excess_return call assigns it.
C16_Witness ==
    /\ pc = "er_lots"
    /\ i = 4
    /\ excess_returns[9][0][0] = StaleValue
    /\ Assigned3([x \in 0 .. 8 |-> excess_returns[x]])
=============================================================================
